---- MODULE Spec2Model ----
(***************************************************************************)
(* ReachPolicy (src/python/run_task.py): a ROS2 node with two callbacks    *)
(* served by the single-threaded executor of rclpy.spin, so each callback  *)
(* runs to completion before the next one starts:                          *)
(*   sub_callback(msg)  - a controller state message replaces current_pos  *)
(*   step_callback()    - the 100 Hz timer tick: maps the joint positions  *)
(*                        returned by robot.forward and publishes one      *)
(*                        single-point JointTrajectory                     *)
(*                                                                         *)
(* Numbers.  The code computes in floats; the model computes the same      *)
(* expressions exactly on integers:                                        *)
(*   angles in radians   are counted in 1/Scale rad                        *)
(*   angles in degrees   are counted in 1/Scale deg                        *)
(*   durations (seconds) are the rationals n / MaxVel, stored as n         *)
(* A quotient that is not a whole number of units is cut toward zero, as   *)
(* int() does.  Rounding of the last bit of a double is not modelled.      *)
(***************************************************************************)
EXTENDS Integers, Sequences, FiniteSets, TLC

VARIABLES
    spinning,        \* rclpy.spin(node) is still serving callbacks
    current_pos,     \* self.current_pos: None or dict joint name -> position
    target_pos,      \* self.target_pos: None or list of 6 mapped positions
    target_command,  \* self.target_command
    i,               \* self.i
    robot,           \* what self.robot was last given by update_joint_state
    pub,             \* trajectories self.pub.publish sent during the latest tick
    last_msg,        \* history: the latest state message delivered
    tick,            \* history: what the latest step_callback read and did
    map_in,          \* SpecMap only: the arguments of one map_joint_angle call
    map_out          \* SpecMap only: what that call returned or raised

vars == <<spinning, current_pos, target_pos, target_command, i, robot, pub,
          last_msg, tick, map_in, map_out>>

node_vars == <<spinning, current_pos, target_pos, target_command, i, robot,
               pub, last_msg, tick>>

-----------------------------------------------------------------------------
(* Python's None and a present value *)
None == [some |-> FALSE]
Some(v) == [some |-> TRUE, val |-> v]

Abs(x) == IF x < 0 THEN -x ELSE x
Min2(a, b) == IF a <= b THEN a ELSE b
Max2(a, b) == IF a >= b THEN a ELSE b

(* int(a / b) for b > 0: the quotient cut toward zero *)
TruncDiv(a, b) == IF a >= 0 THEN a \div b ELSE -((-a) \div b)

(* int(a * b / c) for a, b >= 0 and c > 0, evaluated so that no intermediate
   product leaves the 32-bit integers: a*b/c = a*(b \div c) + a*(b % c)/c *)
MulDivTrunc(a, b, c) == a * (b \div c) + (a * (b % c)) \div c

-----------------------------------------------------------------------------
(* Units and class constants *)
Scale == 100
PI == 314
SimLower == -360
SimUpper == 360

SIM_DOF_ANGLE_LIMITS ==
    [index \in 0..5 |-> [L |-> SimLower * Scale, U |-> SimUpper * Scale, inversed |-> FALSE]]

SERVO_ANGLE_LIMITS ==
    [index \in 0..5 |-> [A |-> -2 * PI, B |-> 2 * PI]]

JOINT_NAMES ==
    <<"elbow_joint", "shoulder_lift_joint", "shoulder_pan_joint",
      "wrist_1_joint", "wrist_2_joint", "wrist_3_joint">>

JOINT_NAME_TO_IDX ==
    [elbow_joint |-> 2, shoulder_lift_joint |-> 1, shoulder_pan_joint |-> 0,
     wrist_1_joint |-> 3, wrist_2_joint |-> 4, wrist_3_joint |-> 5]

MaxVel == 70
MinTrajDur == 0
MovingAverage == 1
NanosPerSec == 1000000000
ExpectedLen == 6
GripperIndex == 5

-----------------------------------------------------------------------------
(* map_joint_angle *)

(* np.rad2deg(float(pos)) *)
Rad2Deg(pos) == TruncDiv(pos * 180 * Scale, PI)

(* faulty variant: the warning is logged but the angle is not clipped *)
ClipNone(x, lo, hi) == x

(* np.clip(x, lo, hi) *)
Clip(x, lo, hi) == Min2(Max2(x, lo), hi)

(* the body of map_joint_angle for one joint's limits: the mapped angle, and
   whether the final range check raised instead of returning it *)
MapAngle(pos, L, U, inversed, A, B) ==
    LET angle_deg == Rad2Deg(pos)
        clipped == IF ~(L <= angle_deg /\ angle_deg <= U)
                   THEN Clip(angle_deg, L, U)
                   ELSE angle_deg
        scaled == TruncDiv((clipped - L) * (B - A), U - L) + A
        mapped == IF inversed THEN (B - A) - (scaled - A) + A ELSE scaled
    IN  [raised |-> ~(A <= mapped /\ mapped <= B),
         warned |-> ~(L <= angle_deg /\ angle_deg <= U),
         value  |-> mapped]

map_joint_angle(pos, index) ==
    LET sim == SIM_DOF_ANGLE_LIMITS[index]
        servo == SERVO_ANGLE_LIMITS[index]
    IN  MapAngle(pos, sim.L, sim.U, sim.inversed, servo.A, servo.B)

-----------------------------------------------------------------------------
(* Inputs: state messages and the joint positions robot.forward returns *)

MaxStateMult == 1
StateStep == 210
JointSpread == 13
MinRawLen == 5
MaxRawLen == 7
MaxRawMult == 2
RawStep == 471
MaxI == 2

(* joint_names as the controller sends them, and the same list with the last
   joint missing *)
ControllerNames ==
    <<"shoulder_pan_joint", "shoulder_lift_joint", "elbow_joint",
      "wrist_1_joint", "wrist_2_joint", "wrist_3_joint">>

NameLists == {ControllerNames, SubSeq(ControllerNames, 1, 5)}

StateMsgs ==
    { [joint_names |-> names,
       positions   |-> [k \in 1..Len(names) |-> StateStep * n + JointSpread * k],
       velocities  |-> [k \in 1..Len(names) |-> 0]]
      : names \in NameLists, n \in (-MaxStateMult)..MaxStateMult }

RawVals == { RawStep * n : n \in -1..MaxRawMult }

(* what robot.forward may return: None, or an array at rest except for one
   entry *)
ForwardResults ==
    {None} \cup
    { Some([k \in 1..len |-> IF k = d THEN w ELSE 0])
      : len \in MinRawLen..MaxRawLen, d \in 1..MaxRawLen, w \in RawVals }

-----------------------------------------------------------------------------
(* sub_callback *)

EmptyDict == [n \in {} |-> 0]

SetItem(dict, key, value) ==
    [n \in DOMAIN dict \cup {key} |-> IF n = key THEN value ELSE dict[n]]

(* the loop over enumerate(msg.joint_names), from entry k on *)
RECURSIVE ActualPosLoop(_, _, _)
ActualPosLoop(msg, k, actual_pos) ==
    IF k > Len(msg.joint_names) THEN actual_pos
    ELSE ActualPosLoop(msg, k + 1,
                       SetItem(actual_pos, msg.joint_names[k], msg.positions[k]))

(* faulty variant: the message is merged into the dict already held *)
NewCurrentPosMerged(self_current_pos, msg) ==
    Some(ActualPosLoop(msg, 1,
                       IF self_current_pos.some THEN self_current_pos.val ELSE EmptyDict))

(* the value assigned to self.current_pos *)
NewCurrentPos(self_current_pos, msg) ==
    Some(ActualPosLoop(msg, 1, EmptyDict))

sub_callback(msg) ==
    /\ spinning
    /\ current_pos' = NewCurrentPos(current_pos, msg)
    /\ robot' = Some([positions |-> msg.positions, velocities |-> msg.velocities])
    /\ last_msg' = Some(msg)
    /\ UNCHANGED <<spinning, target_pos, target_command, i, pub, tick, map_in, map_out>>

-----------------------------------------------------------------------------
(* step_callback *)

(* np.array([0.5, 0.0, 0.2, 0.7071, 0.0, 0.7071, 0.0]), in 1/10000 *)
TargetCommand == <<5000, 0, 2000, 7071, 0, 7071, 0>>

(* faulty variant: a seventh, trailing entry is tolerated *)
LengthOkDropTrailing(joint_pos) ==
    Len(joint_pos) = ExpectedLen \/ Len(joint_pos) = ExpectedLen + 1

(* len(joint_pos) != 6 raises *)
LengthOk(joint_pos) == Len(joint_pos) = ExpectedLen

(* faulty variant: the list mapped on an earlier tick is kept once there is one *)
ComputeTargetPosCached(self_target_pos, joint_pos) ==
    [raised |-> FALSE,
     warned |-> FALSE,
     target_pos |-> IF self_target_pos.some
                    THEN self_target_pos.val
                    ELSE [k \in 1..ExpectedLen |->
                            IF k <= Len(joint_pos) /\ k - 1 # GripperIndex
                            THEN map_joint_angle(joint_pos[k], k - 1).value
                            ELSE 0]]

(* the loop filling target_pos = [0] * 6 from enumerate(joint_pos): entry
   GripperIndex is skipped; an entry past the six limits raises (IndexError),
   as does the range check of map_joint_angle *)
ComputeTargetPos(self_target_pos, joint_pos) ==
    LET visited == { k \in 1..Len(joint_pos) : k - 1 # GripperIndex }
        inTable == { k \in visited : k <= ExpectedLen }
        mapped == [k \in inTable |-> map_joint_angle(joint_pos[k], k - 1)]
    IN  [raised |-> visited # inTable \/ \E k \in inTable : mapped[k].raised,
         warned |-> \E k \in inTable : mapped[k].warned,
         target_pos |-> [k \in 1..ExpectedLen |->
                            IF k \in inTable THEN mapped[k].value ELSE 0]]

(* faulty variant: "and" for "or" in the availability check *)
ReadyToPublishEither(cur, tgt) == ~(~cur.some /\ ~tgt.some)

(* "if self.current_pos is None or self.target_pos is None: return" *)
ReadyToPublish(cur, tgt) == ~(~cur.some \/ ~tgt.some)

(* cmd = pos * (1 - moving_average) + target * moving_average *)
Blend(pos, target) == pos * (1 - MovingAverage) + target * MovingAverage

(* abs(cmd - pos) / max_vel if max_vel else self.min_traj_dur, then
   max(duration, self.min_traj_dur); a duration is stored as its numerator
   over MaxVel *)
JointDuration(cmd, pos) ==
    LET duration == IF MaxVel # 0 THEN Abs(cmd - pos) ELSE MinTrajDur * MaxVel
    IN  Max2(duration, MinTrajDur * MaxVel)

(* faulty variant: the target is taken at the joint's place in JOINT_NAMES *)
TargetOfPublishOrder(tgt, joint_name) ==
    tgt[CHOOSE k \in 1..Len(JOINT_NAMES) : JOINT_NAMES[k] = joint_name]

(* self.target_pos[self.JOINT_NAME_TO_IDX[joint_name]] *)
TargetOf(tgt, joint_name) == tgt[JOINT_NAME_TO_IDX[joint_name] + 1]

(* the joints self.current_pos holds; subscripting None raises as a missing
   key does *)
Held(cur) == IF cur.some THEN DOMAIN cur.val ELSE {}

(* the loop over traj.joint_names raises at the first joint that
   self.current_pos[joint_name] cannot find *)
LookupFails(cur, joint_names) ==
    \E k \in 1..Len(joint_names) : joint_names[k] \notin Held(cur)

(* pos = self.current_pos[joint_name], for each joint of the loop *)
ReadPositions(cur, joint_names) ==
    [k \in 1..Len(joint_names) |->
        IF joint_names[k] \in Held(cur) THEN cur.val[joint_names[k]] ELSE 0]

(* point.positions after the loop *)
Commands(reads, tgt, joint_names) ==
    [k \in 1..Len(joint_names) |-> Blend(reads[k], TargetOf(tgt, joint_names[k]))]

(* dur_list after the loop *)
DurList(cmds, reads) ==
    [k \in 1..Len(cmds) |-> JointDuration(cmds[k], reads[k])]

(* faulty variant: the duration of the last joint of the loop *)
LastDuration(dur_list) ==
    IF Len(dur_list) = 0 THEN 0 ELSE dur_list[Len(dur_list)]

(* max(dur_list) if dur_list else 0.0 *)
MaxDuration(dur_list) ==
    IF Len(dur_list) = 0 THEN 0
    ELSE CHOOSE d \in { dur_list[k] : k \in 1..Len(dur_list) } :
            \A k \in 1..Len(dur_list) : dur_list[k] <= d

(* sec = int(max_duration) *)
Sec(max_duration) == TruncDiv(max_duration, MaxVel)

(* faulty variant: round() for int() *)
NanosecRounded(max_duration, sec) ==
    (MulDivTrunc(2 * (max_duration - sec * MaxVel), NanosPerSec, MaxVel) + 1) \div 2

(* nanosec = int((max_duration - sec) * 1e9) *)
Nanosec(max_duration, sec) ==
    MulDivTrunc(max_duration - sec * MaxVel, NanosPerSec, MaxVel)

(* faulty variant: traj.points.append(point) inside the joint loop *)
TrajPointsPerJoint(positions, time_from_start) ==
    [k \in 1..Len(positions) |->
        [positions |-> SubSeq(positions, 1, k), time_from_start |-> time_from_start]]

(* traj.points after the loop: one point holding every command *)
TrajPoints(positions, time_from_start) ==
    << [positions |-> positions, time_from_start |-> time_from_start] >>

BuildTraj(positions, max_duration) ==
    LET sec == Sec(max_duration)
    IN  [joint_names |-> JOINT_NAMES,
         points |-> TrajPoints(positions,
                               [sec |-> sec, nanosec |-> Nanosec(max_duration, sec)])]

(* how the tick ends, in the order the code decides it *)
Outcome(cur, joint_pos, computed) ==
    IF ~joint_pos.some THEN "no_target"
    ELSE IF ~LengthOk(joint_pos.val) THEN "length_error"
    ELSE IF computed.raised THEN "map_fault"
    ELSE IF ~ReadyToPublish(cur, Some(computed.target_pos)) THEN "skipped"
    ELSE IF LookupFails(cur, JOINT_NAMES) THEN "key_error"
    ELSE "published"

Raises == {"length_error", "map_fault", "key_error"}
AssignsTarget == {"skipped", "key_error", "published"}

(* faulty variant: the exception is caught and logged, spin goes on *)
SpinCatches(outcome) == TRUE

(* main: rclpy.spin(node) has no handler around it, so an exception raised by
   a callback ends spin *)
SpinSurvives(outcome) == outcome \notin Raises

NoTarget == [raised |-> FALSE, warned |-> FALSE, target_pos |-> <<0, 0, 0, 0, 0, 0>>]

step_callback(joint_pos) ==
    /\ spinning
    /\ i < MaxI
    /\ \E computed \in {IF joint_pos.some
                        THEN ComputeTargetPos(target_pos, joint_pos.val)
                        ELSE NoTarget} :
       \E outcome \in {Outcome(current_pos, joint_pos, computed)} :
       \E reads \in {IF outcome = "published"
                     THEN ReadPositions(current_pos, JOINT_NAMES) ELSE <<>>} :
       \E cmds \in {IF outcome = "published"
                    THEN Commands(reads, computed.target_pos, JOINT_NAMES) ELSE <<>>} :
       \E dur_list \in {DurList(cmds, reads)} :
       \E max_duration \in {MaxDuration(dur_list)} :
           /\ target_command' = TargetCommand
           /\ target_pos' = IF outcome \in AssignsTarget
                            THEN Some(computed.target_pos)
                            ELSE target_pos
           /\ pub' = IF outcome = "published"
                     THEN <<BuildTraj(cmds, max_duration)>>
                     ELSE <<>>
           /\ i' = IF outcome \in {"no_target", "published"} THEN i + 1 ELSE i
           /\ spinning' = SpinSurvives(outcome)
           /\ tick' = [ran |-> TRUE,
                       joint_pos |-> joint_pos,
                       state |-> last_msg,
                       mapped |-> outcome \in AssignsTarget,
                       warned |-> computed.warned,
                       outcome |-> outcome,
                       prev_outcome |-> tick.outcome,
                       reads |-> reads,
                       max_duration |-> max_duration]
           /\ UNCHANGED <<current_pos, robot, last_msg, map_in, map_out>>

-----------------------------------------------------------------------------
(* The node: __init__, then rclpy.spin serving the two callbacks *)

NoTick == [ran |-> FALSE, joint_pos |-> None, state |-> None, mapped |-> FALSE,
           warned |-> FALSE, outcome |-> "none", prev_outcome |-> "none", reads |-> <<>>, max_duration |-> 0]

NodeInit ==
    /\ spinning = TRUE
    /\ current_pos = None
    /\ target_pos = None
    /\ target_command = <<0, 0, 0, 0, 0, 0, 0>>
    /\ i = 0
    /\ robot = None
    /\ pub = <<>>
    /\ last_msg = None
    /\ tick = NoTick

Init ==
    /\ NodeInit
    /\ map_in = None
    /\ map_out = None

Next ==
    \/ \E msg \in StateMsgs : sub_callback(msg)
    \/ \E joint_pos \in ForwardResults : step_callback(joint_pos)

Spec == Init /\ [][Next]_vars

-----------------------------------------------------------------------------
(* map_joint_angle on its own: one call with arguments drawn from a range of
   positions around and beyond the limits, every joint index, and either
   value of a joint's inversed flag *)

MapFar == 800
HugePos == 100000

MapPositions == ((-MapFar)..MapFar) \cup {-HugePos, HugePos}

MapCall(pos, index, inversed) ==
    LET sim == SIM_DOF_ANGLE_LIMITS[index]
        servo == SERVO_ANGLE_LIMITS[index]
    IN  MapAngle(pos, sim.L, sim.U, inversed, servo.A, servo.B)

InitMap ==
    /\ NodeInit
    /\ map_in \in { Some([pos |-> pos, index |-> index, inversed |-> inversed])
                    : pos \in MapPositions, index \in 0..5, inversed \in BOOLEAN }
    /\ map_out = None

MapApply ==
    /\ ~map_out.some
    /\ map_out' = Some(MapCall(map_in.val.pos, map_in.val.index, map_in.val.inversed))
    /\ UNCHANGED <<map_in, node_vars>>

NextMap == MapApply

SpecMap == InitMap /\ [][NextMap]_vars

-----------------------------------------------------------------------------
(* Properties of the node (checked under Spec) *)

Published == tick.outcome = "published"
TickHadState == tick.state.some
TickRaw == tick.joint_pos.val
TickRawLen == IF tick.joint_pos.some THEN Len(tick.joint_pos.val) ELSE 0

(* C1: a Waypoint is published on a tick only if a state update had been
   received before that tick and a mapped target array was computed on it; a
   tick lacking either publishes nothing; a tick publishes at most one
   trajectory, and it holds exactly one point. *)
C1_WaypointOnlyWithStateAndTarget ==
    /\ Len(pub) <= 1
    /\ \A n \in 1..Len(pub) : Len(pub[n].points) = 1
    /\ pub # <<>> =>
          /\ tick.ran /\ TickHadState
          /\ tick.mapped /\ tick.joint_pos.some /\ TickRawLen = ExpectedLen
    /\ (tick.ran /\ (~TickHadState \/ ~tick.mapped)) => pub = <<>>

C1_Witness ==
    /\ Len(pub) = 1
    /\ TickHadState /\ tick.mapped
    /\ Len(pub[1].points) = 1

(* C2 as stated: a tick with no state update ever received publishes nothing
   and raises nothing, whatever the target array (any length, any values). *)
C2_Original ==
    (tick.ran /\ ~TickHadState) => (pub = <<>> /\ tick.outcome \notin Raises)

(* C2 amended: a tick with no state update ever received publishes nothing;
   it is silent when robot.forward returned None or exactly 6 entries
   (whatever their values), and raises the length error, ending spin, when the
   array has any other length. *)
C2_NoStateNoWaypoint ==
    (tick.ran /\ ~TickHadState) =>
        /\ pub = <<>>
        /\ tick.outcome \in {"no_target", "skipped", "length_error"}
        /\ tick.outcome = "length_error" <=>
              (tick.joint_pos.some /\ TickRawLen # ExpectedLen)
        /\ tick.outcome \in {"no_target", "skipped"} => spinning

C2_Witness ==
    /\ tick.ran /\ ~TickHadState
    /\ tick.outcome = "skipped"
    /\ tick.warned
    /\ spinning

(* the target array after a trailing seventh (gripper) entry is dropped *)
DropTrailingGripper(raw) ==
    IF Len(raw) = ExpectedLen + 1 THEN SubSeq(raw, 1, ExpectedLen) ELSE raw

(* C3 as stated: the tick reports the length error and publishes nothing if
   and only if the target array, after a trailing gripper entry is dropped,
   does not have exactly 6 elements; 6 and 7 elements are both accepted. *)
C3_Original ==
    (tick.ran /\ tick.joint_pos.some) =>
        (tick.outcome = "length_error" <=> Len(DropTrailingGripper(TickRaw)) # ExpectedLen)

(* C3 amended: the tick raises the length error and publishes nothing if and
   only if robot.forward returned an array whose length is not exactly 6;
   nothing is dropped first, so a 7-element array raises as a 5-element one
   does, and only a 6-element array is accepted and mapped. *)
C3_LengthErrorIffNotSix ==
    tick.ran =>
        /\ tick.outcome = "length_error" <=>
              (tick.joint_pos.some /\ TickRawLen # ExpectedLen)
        /\ tick.outcome = "length_error" => (pub = <<>> /\ ~tick.mapped)
        /\ (tick.joint_pos.some /\ TickRawLen = ExpectedLen) => tick.mapped

C3_Witness ==
    /\ tick.outcome = "length_error"
    /\ TickRawLen = ExpectedLen + 1
    /\ TickHadState
    /\ pub = <<>>

(* C4 as stated: after a tick that ends in the length error or the mapper's
   postcondition fault the node keeps running. *)
C4_Original ==
    tick.outcome \in {"length_error", "map_fault"} => spinning

(* C4 amended: a tick that raises (the length error; the mapper's fault would
   do the same) ends rclpy.spin, which main does not guard: from then on no
   tick and no state update runs and nothing more is published.  A tick that
   ends without raising leaves the node spinning. *)
C4_RaiseEndsSpin ==
    /\ tick.outcome \in Raises <=> ~spinning
    /\ ~spinning => (pub = <<>> /\ ~ENABLED Next)

C4_Witness ==
    /\ tick.outcome = "length_error"
    /\ tick.prev_outcome = "published"
    /\ last_msg.some
    /\ ~spinning

-----------------------------------------------------------------------------
(* C5: for every joint index and every input position (exactly at a limit,
   inside the source range, far outside it), inverted or not,
   map_joint_angle returns a value within the servo range [A, B] and its
   range check never raises.  Checked under SpecMap. *)
C5_MappedWithinServoRange ==
    map_out.some =>
        /\ ~map_out.val.raised
        /\ SERVO_ANGLE_LIMITS[map_in.val.index].A <= map_out.val.value
        /\ map_out.val.value <= SERVO_ANGLE_LIMITS[map_in.val.index].B

C5_Witness ==
    /\ map_out.some
    /\ map_in.val.inversed
    /\ map_in.val.pos = HugePos
    /\ map_out.val.warned
    /\ map_out.val.value = SERVO_ANGLE_LIMITS[map_in.val.index].A

-----------------------------------------------------------------------------
(* the dict a state message stands for: each listed joint at the position
   given at the joint's place in the message *)
DictOf(msg) ==
    [n \in { msg.joint_names[k] : k \in 1..Len(msg.joint_names) } |->
        msg.positions[CHOOSE k \in 1..Len(msg.joint_names) : msg.joint_names[k] = n]]

PublishedPoint == pub[1].points[1]

(* C6: a state update replaces the whole snapshot: current_pos is always
   exactly the dict of the latest message (no joint of an older message
   survives), and every position a publishing tick read is the one the single
   latest message before it gave for that joint. *)
C6_SnapshotReplacedWhole ==
    /\ current_pos.some <=> last_msg.some
    /\ current_pos.some => current_pos.val = DictOf(last_msg.val)
    /\ Published =>
          /\ TickHadState
          /\ \A k \in 1..Len(JOINT_NAMES) :
                tick.reads[k] = DictOf(tick.state.val)[JOINT_NAMES[k]]

C6_Witness ==
    /\ Published
    /\ current_pos.some
    /\ "wrist_3_joint" \notin DOMAIN current_pos.val
    /\ tick.state # last_msg

(* C7: the duration of a published Waypoint is the maximum over the joints of
   max(|cmd - current| / max_vel, min_traj_dur): it is not negative, not below
   the floor, not below any joint's |cmd - current| / max_vel, and it equals
   one of them.  (Durations are numerators over MaxVel.) *)
C7_DurationIsSlowestJoint ==
    Published =>
        LET cmd == PublishedPoint.positions
            cur == tick.reads
            d == tick.max_duration
            need == [k \in 1..Len(cmd) |-> IF cmd[k] >= cur[k] THEN cmd[k] - cur[k]
                                                                ELSE cur[k] - cmd[k]]
        IN  /\ Len(cmd) = Len(JOINT_NAMES)
            /\ d >= 0
            /\ d >= MinTrajDur * MaxVel
            /\ \A k \in 1..Len(cmd) : d >= need[k]
            /\ d = MinTrajDur * MaxVel \/ \E k \in 1..Len(cmd) : d = need[k]

C7_Witness ==
    /\ Published
    /\ tick.max_duration > MaxVel
    /\ \E k \in 1..Len(JOINT_NAMES) :
          /\ PublishedPoint.positions[k] # tick.reads[k]
          /\ Abs(PublishedPoint.positions[k] - tick.reads[k]) < tick.max_duration

(* a product a * b of non-negative integers as <<high, low>> digits in base
   10^4, for comparisons that would leave the 32-bit integers *)
Wide(a, b) ==
    LET base == 10000
        lo == (a % base) * b
    IN  <<(a \div base) * b + lo \div base, lo % base>>
WideLeq(x, y) == x[1] < y[1] \/ (x[1] = y[1] /\ x[2] <= y[2])
WideLess(x, y) == x[1] < y[1] \/ (x[1] = y[1] /\ x[2] < y[2])

(* C8: for a published Waypoint of duration d, sec is d cut to whole seconds,
   0 <= nanosec < 10^9, and nanosec is the rest of d in nanoseconds cut to a
   whole nanosecond: sec + nanosec / 10^9 <= d < sec + (nanosec + 1) / 10^9. *)
C8_TimeFromStartTruncates ==
    Published =>
        LET t == PublishedPoint.time_from_start
            d == tick.max_duration
            rest == d - t.sec * MaxVel
        IN  /\ t.sec >= 0
            /\ t.sec * MaxVel <= d /\ d < (t.sec + 1) * MaxVel
            /\ 0 <= t.nanosec /\ t.nanosec < NanosPerSec
            /\ WideLeq(Wide(t.nanosec, MaxVel), Wide(NanosPerSec, rest))
            /\ WideLess(Wide(NanosPerSec, rest), Wide(t.nanosec + 1, MaxVel))

C8_Witness ==
    /\ Published
    /\ PublishedPoint.time_from_start.sec >= 1
    /\ PublishedPoint.time_from_start.nanosec > 0
    /\ WideLess(Wide(PublishedPoint.time_from_start.nanosec, MaxVel),
                Wide(NanosPerSec,
                     tick.max_duration - PublishedPoint.time_from_start.sec * MaxVel))

(* the Waypoint as a function of one snapshot and one target array alone *)
WaypointOf(snapshot, raw) ==
    LET want == [k \in 1..Len(JOINT_NAMES) |->
                    LET idx == JOINT_NAME_TO_IDX[JOINT_NAMES[k]]
                    IN  IF idx = GripperIndex THEN 0
                        ELSE map_joint_angle(raw[idx + 1], idx).value]
        have == [k \in 1..Len(JOINT_NAMES) |-> snapshot[JOINT_NAMES[k]]]
        cmd == [k \in 1..Len(JOINT_NAMES) |-> Blend(have[k], want[k])]
        durs == [k \in 1..Len(JOINT_NAMES) |-> JointDuration(cmd[k], have[k])]
    IN  BuildTraj(cmd, MaxDuration(durs))

(* C9: what a tick publishes is determined by the latest snapshot and that
   tick's target array alone, whatever earlier ticks did (published, were
   skipped, clipped) and whatever earlier snapshots there were. *)
C9_WaypointDependsOnLatestOnly ==
    Published =>
        /\ TickHadState
        /\ pub = <<WaypointOf(DictOf(tick.state.val), TickRaw)>>

C9_Witness ==
    /\ Published
    /\ tick.prev_outcome = "skipped"
    /\ \E k \in 1..(ExpectedLen - 1) : TickRaw[k] # 0

(* C10: a published Waypoint carries 6 positions in JOINT_NAMES order, the
   k-th being the blend of the current position of JOINT_NAMES[k] with the
   mapped raw target at that joint's simulation index (elbow 2,
   shoulder_lift 1, shoulder_pan 0, wrist_1 3, wrist_2 4); slot 5 is never
   mapped and stays 0, so wrist_3_joint is commanded to 0 whatever its raw
   target is. *)
C10_PositionsBySimIndex ==
    Published =>
        LET raw == TickRaw
            cur == DictOf(tick.state.val)
            slot == <<map_joint_angle(raw[3], 2).value,
                      map_joint_angle(raw[2], 1).value,
                      map_joint_angle(raw[1], 0).value,
                      map_joint_angle(raw[4], 3).value,
                      map_joint_angle(raw[5], 4).value,
                      0>>
            p == PublishedPoint.positions
        IN  /\ pub[1].joint_names = JOINT_NAMES
            /\ Len(p) = 6
            /\ \A k \in 1..6 :
                  p[k] = cur[JOINT_NAMES[k]] * (1 - MovingAverage) + slot[k] * MovingAverage
            /\ MovingAverage = 1 => p[6] = 0

C10_Witness ==
    /\ Published
    /\ TickRaw[6] # 0
    /\ PublishedPoint.positions[6] = 0
    /\ tick.reads[6] # 0

====
